---- MODULE Spec2Model ----
(***************************************************************************)
(* SMA crossover backtest (sma_strategy.py): the strategy function         *)
(* sma_crossover_strategy and the per-ticker main loop.                    *)
(*                                                                         *)
(* Numbers.  Closes are positive integers; every derived real (a moving    *)
(* average, a return, a summary statistic) is an exact rational [n, d] in  *)
(* lowest terms, so that the effect of round(x, 2) is visible.  Binary     *)
(* floating-point error below the second decimal is outside the model.     *)
(* Optional values (None, NaN) are the empty tuple, a present value v is   *)
(* the one-element tuple <<v>>.  Sequences are 1-indexed: bar i of the     *)
(* model is row i-1 of the dataframe.                                      *)
(***************************************************************************)
EXTENDS Integers, Sequences, FiniteSets, TLC

\* ----- bounds of the model ----------------------------------------------
\* The source fixes the windows at 50 and 200 bars.  Series of that length
\* cannot be enumerated, so the model ranges over every ordered window pair
\* 1 <= SMA_SHORT < SMA_LONG <= MaxWindow.
MaxWindow == 3
\* closes are drawn from 1..MaxPrice
MaxPrice == 3
\* dates are drawn from 1..MaxDate, so a series has at most MaxDate bars
MaxDate == 6

VARIABLES
    SMA_SHORT, SMA_LONG,      \* strategy parameters
    pc,                       \* position of the program
    k,                        \* index into TICKERS of the main loop
    df,                       \* rows [Date, Close] of the dataframe
    SMA_Short, SMA_Long,      \* columns added by the strategy
    Signal, Position,
    i,                        \* backtest loop index
    entry_price, entry_date,  \* the open entry, None when there is none
    trades,                   \* rows appended by the backtest loop
    trade_log, summary,       \* results of the last strategy call
    sheets,                   \* sheets written to the trade-log workbook
    all_summaries,            \* rows collected by the main loop
    summary_file,             \* content of SMA_Crossover_Summary.xlsx
    printed                   \* lines printed by the program

vars == <<SMA_SHORT, SMA_LONG, pc, k, df, SMA_Short, SMA_Long, Signal,
          Position, i, entry_price, entry_date, trades, trade_log, summary,
          sheets, all_summaries, summary_file, printed>>

None == <<>>
NaN == <<>>

TICKERS == <<"RELIANCE.NS", "KOTAKBANK.NS", "ICICIBANK.NS">>

\* ----- exact rationals ---------------------------------------------------
RECURSIVE GCD(_, _)
GCD(a, b) == IF b = 0 THEN a ELSE GCD(b, a % b)

Abs(x) == IF x < 0 THEN -x ELSE x

\* n/d in lowest terms, d > 0
Rat(n, d) ==
    LET g == GCD(Abs(n), Abs(d))
        s == IF d < 0 THEN -1 ELSE 1
    IN  [n |-> s * (n \div g), d |-> s * (d \div g)]

Zero == Rat(0, 1)
RatAdd(x, y) == Rat(x.n * y.d + y.n * x.d, x.d * y.d)
RatLess(x, y) == x.n * y.d < y.n * x.d

RECURSIVE SeqSum(_)
SeqSum(s) == IF s = <<>> THEN 0 ELSE Head(s) + SeqSum(Tail(s))

RECURSIVE RatSum(_)
RatSum(s) == IF s = <<>> THEN Zero ELSE RatAdd(Head(s), RatSum(Tail(s)))

\* mean of a sequence of rationals; NaN for an empty one (pandas)
RatMean(s) ==
    IF s = <<>> THEN NaN
    ELSE LET t == RatSum(s) IN <<Rat(t.n, t.d * Len(s))>>

\* round(x, 2): to the nearest hundredth, a tie to the even hundredth
Round2(x) ==
    LET m == x.n * 100
        q == m \div x.d
        r == m - q * x.d
        h == IF 2 * r < x.d THEN q
             ELSE IF 2 * r > x.d THEN q + 1
             ELSE IF q % 2 = 0 THEN q ELSE q + 1
    IN  Rat(h, 100)

\* ----- the strategy: moving averages and signals -------------------------
Closes(d) == [j \in 1..Len(d) |-> d[j].Close]

\* mutant: rolling(w, min_periods=1), a mean over the bars seen so far
RollingFromFirstBar(c, w) ==
    [j \in 1..Len(c) |->
        IF j < w THEN <<Rat(SeqSum(SubSeq(c, 1, j)), j)>>
        ELSE <<Rat(SeqSum(SubSeq(c, j - w + 1, j)), w)>>]

\* Series.rolling(w).mean(): NaN until w observations are in the window
Rolling(c, w) ==
    [j \in 1..Len(c) |->
        IF j < w THEN NaN
        ELSE <<Rat(SeqSum(SubSeq(c, j - w + 1, j)), w)>>]

\* a comparison with NaN is False
Gt(x, y) == x # NaN /\ y # NaN /\ RatLess(y[1], x[1])
Lt(x, y) == x # NaN /\ y # NaN /\ RatLess(x[1], y[1])

\* mutant: >= in place of > on line 22
SignalOfGe(s, l) ==
    [j \in 1..Len(s) |->
        IF Lt(s[j], l[j]) THEN -1
        ELSE IF s[j] # NaN /\ l[j] # NaN THEN 1
        ELSE 0]

SignalOf(s, l) ==
    [j \in 1..Len(s) |->
        IF Lt(s[j], l[j]) THEN -1
        ELSE IF Gt(s[j], l[j]) THEN 1
        ELSE 0]

\* mutant: the previous signal minus the current one
DiffReversed(sig) ==
    [j \in 1..Len(sig) |-> IF j = 1 THEN NaN ELSE <<sig[j - 1] - sig[j]>>]

\* Series.diff(): NaN in the first row
Diff(sig) ==
    [j \in 1..Len(sig) |-> IF j = 1 THEN NaN ELSE <<sig[j] - sig[j - 1]>>]

\* ----- the strategy: backtest loop ---------------------------------------
\* mutant: any rise of the signal is a buy
IsBuyAnyUp(p) == p # NaN /\ p[1] >= 1

IsBuy(p) == p = <<2>>

\* mutant: any fall of the signal is a sell
IsSellAnyDown(p, ep) == p # NaN /\ p[1] <= -1 /\ ep # None

IsSell(p, ep) == p = <<-2>> /\ ep # None

\* mutant: the return is taken over the exit price
ReturnPctOverExit(entry, exit) == Rat((exit - entry) * 100, exit)

ReturnPct(entry, exit) == Rat((exit - entry) * 100, entry)

HoldingDays(ed, xd) == xd - ed

Returns(log) == [j \in 1..Len(log) |-> log[j].ReturnPct]

\* mutant: a break-even trade counts as a win
WinsOrEven(log) == SelectSeq(Returns(log), LAMBDA r : r.n >= 0)

Wins(log) == SelectSeq(Returns(log), LAMBDA r : r.n > 0)

Losses(log) == SelectSeq(Returns(log), LAMBDA r : r.n < 0)

ZeroSummary ==
    [TotalTrades |-> 0, WinRate |-> Zero, AvgWin |-> Zero,
     AvgLoss |-> Zero, TotalPnL |-> Zero]

SummaryOf(log) ==
    IF log = <<>> THEN ZeroSummary
    ELSE LET win_rate == Rat(Len(Wins(log)) * 100, Len(log))
             avg_win == RatMean(Wins(log))
             avg_loss == RatMean(Losses(log))
             total_pnl == RatSum(Returns(log))
         IN  [TotalTrades |-> Len(log),
              WinRate |-> Round2(win_rate),
              AvgWin |-> IF avg_win # NaN THEN Round2(avg_win[1]) ELSE Zero,
              AvgLoss |-> IF avg_loss # NaN THEN Round2(avg_loss[1]) ELSE Zero,
              TotalPnL |-> Round2(total_pnl)]

main == <<SMA_SHORT, SMA_LONG, k, sheets, all_summaries, summary_file, printed>>
columns == <<SMA_Short, SMA_Long, Signal, Position>>

\* lines 17-27: the four columns, then the loop's initial state
ComputeSignals ==
    /\ pc = "signals"
    /\ SMA_Short' = Rolling(Closes(df), SMA_SHORT)
    /\ SMA_Long' = Rolling(Closes(df), SMA_LONG)
    /\ Signal' = SignalOf(SMA_Short', SMA_Long')
    /\ Position' = Diff(Signal')
    /\ trades' = <<>>
    /\ entry_price' = None
    /\ entry_date' = None
    /\ i' = 1
    /\ pc' = "loop"
    /\ UNCHANGED <<main, df, trade_log, summary>>

\* lines 31-33
Buy ==
    /\ pc = "loop"
    /\ i <= Len(df)
    /\ IsBuy(Position[i])
    /\ entry_price' = <<df[i].Close>>
    /\ entry_date' = <<df[i].Date>>
    /\ i' = i + 1
    /\ UNCHANGED <<main, columns, pc, df, trades, trade_log, summary>>

\* lines 35-44
Sell ==
    /\ pc = "loop"
    /\ i <= Len(df)
    /\ ~IsBuy(Position[i])
    /\ IsSell(Position[i], entry_price)
    /\ LET exit_price == df[i].Close
           exit_date == df[i].Date
       IN  trades' = Append(trades,
               [EntryDate |-> entry_date[1],
                EntryPrice |-> entry_price[1],
                ExitDate |-> exit_date,
                ExitPrice |-> exit_price,
                ReturnPct |-> ReturnPct(entry_price[1], exit_price),
                HoldingDays |-> HoldingDays(entry_date[1], exit_date)])
    /\ entry_price' = None
    /\ entry_date' = None
    /\ i' = i + 1
    /\ UNCHANGED <<main, columns, pc, df, trade_log, summary>>

\* neither branch of the loop body is taken
Hold ==
    /\ pc = "loop"
    /\ i <= Len(df)
    /\ ~IsBuy(Position[i])
    /\ ~IsSell(Position[i], entry_price)
    /\ i' = i + 1
    /\ UNCHANGED <<main, columns, pc, df, trades, entry_price, entry_date,
                   trade_log, summary>>

\* mutant: an entry still open after the last bar is closed at the last close
SummaryStatsMarkToMarket ==
    /\ pc = "loop"
    /\ i > Len(df)
    /\ LET last == df[Len(df)]
           closed ==
               IF entry_price = None THEN trades
               ELSE Append(trades,
                       [EntryDate |-> entry_date[1],
                        EntryPrice |-> entry_price[1],
                        ExitDate |-> last.Date,
                        ExitPrice |-> last.Close,
                        ReturnPct |-> Rat((last.Close - entry_price[1]) * 100,
                                          entry_price[1]),
                        HoldingDays |-> last.Date - entry_date[1]])
       IN  /\ trade_log' = closed
           /\ summary' = <<SummaryOf(closed)>>
    /\ pc' = "return"
    /\ UNCHANGED <<main, columns, df, i, trades, entry_price, entry_date>>

\* lines 47-68: the loop is over; trade log, summary, return
SummaryStats ==
    /\ pc = "loop"
    /\ i > Len(df)
    /\ trade_log' = trades
    /\ summary' = <<SummaryOf(trades)>>
    /\ pc' = "return"
    /\ UNCHANGED <<main, columns, df, i, trades, entry_price, entry_date>>

\* ----- the main loop -----------------------------------------------------
\* DataFrame.dropna(): the rows without a close are removed
DropNa(raw) ==
    LET kept == SelectSeq(raw, LAMBDA r : r.Close # NaN)
    IN  [j \in 1..Len(kept) |-> [Date |-> kept[j].Date, Close |-> kept[j].Close[1]]]

Row(d, c) == [Date |-> d, Close |-> c]

\* what the market-data provider returns in the whole-program runs
Downloads ==
    { <<>>,
      <<Row(1, <<2>>), Row(2, <<1>>)>>,
      <<Row(1, <<3>>), Row(2, NaN), Row(3, <<2>>), Row(4, <<3>>), Row(7, <<2>>)>>,
      <<Row(1, <<1>>), Row(2, <<1>>), Row(3, <<2>>), Row(4, <<1>>), Row(5, <<3>>),
        Row(6, <<2>>)>> }

\* lines 97-98; the call of line 100 follows
Download ==
    /\ pc = "fetch"
    /\ \E raw \in Downloads : df' = DropNa(raw)
    /\ pc' = "signals"
    /\ UNCHANGED <<main, columns, i, entry_price, entry_date, trades,
                   trade_log, summary>>

\* line 97: yf.download raises; nothing catches it, the with block is left
\* and the interpreter exits
DownloadRaises ==
    /\ pc = "fetch"
    /\ pc' = "aborted"
    /\ UNCHANGED <<main, columns, df, i, entry_price, entry_date, trades,
                   trade_log, summary>>

\* lines 103-108, then the next ticker or the end of the with block
SaveResults ==
    /\ pc = "return"
    /\ sheets' = Append(sheets, <<TICKERS[k], trade_log>>)
    /\ all_summaries' = Append(all_summaries, <<TICKERS[k], summary[1]>>)
    /\ IF k < Len(TICKERS)
          THEN k' = k + 1 /\ pc' = "fetch"
          ELSE k' = k /\ pc' = "write_summary"
    /\ UNCHANGED <<SMA_SHORT, SMA_LONG, summary_file, printed, columns, df, i,
                   entry_price, entry_date, trades, trade_log, summary>>

\* lines 111-117
WriteSummary ==
    /\ pc = "write_summary"
    /\ summary_file' = <<all_summaries>>
    /\ printed' = Append(printed, "SMA Crossover backtest complete. Trade logs & summary saved.")
    /\ pc' = "done"
    /\ UNCHANGED <<SMA_SHORT, SMA_LONG, k, sheets, all_summaries, columns, df,
                   i, entry_price, entry_date, trades, trade_log, summary>>

\* ----- specifications ----------------------------------------------------
Windows ==
    /\ SMA_LONG \in 2..MaxWindow
    /\ SMA_SHORT \in 1..(SMA_LONG - 1)

Start ==
    /\ Windows
    /\ k = 1
    /\ SMA_Short = <<>> /\ SMA_Long = <<>> /\ Signal = <<>> /\ Position = <<>>
    /\ i = 1
    /\ entry_price = None /\ entry_date = None
    /\ trades = <<>> /\ trade_log = <<>> /\ summary = None
    /\ sheets = <<>> /\ all_summaries = <<>>
    /\ summary_file = None
    /\ printed = <<>>

\* the j-th smallest element of a set of dates
Nth(D, j) == CHOOSE d \in D : Cardinality({e \in D : e <= d}) = j

\* one call of sma_crossover_strategy, on any price series within the bounds:
\* ascending unique dates, positive closes
Init ==
    /\ Start
    /\ pc = "signals"
    /\ \E D \in SUBSET (1..MaxDate) :
         \E c \in [1..Cardinality(D) -> 1..MaxPrice] :
            df = [j \in 1..Cardinality(D) |-> [Date |-> Nth(D, j), Close |-> c[j]]]

Next == ComputeSignals \/ Buy \/ Sell \/ Hold \/ SummaryStats

Spec == Init /\ [][Next]_vars

\* the whole program
MainInit ==
    /\ Start
    /\ pc = "fetch"
    /\ df = <<>>

MainNext ==
    \/ Download \/ DownloadRaises
    \/ ComputeSignals \/ Buy \/ Sell \/ Hold \/ SummaryStats
    \/ SaveResults \/ WriteSummary

MainSpec == MainInit /\ [][MainNext]_vars

\* ----- vocabulary of the properties --------------------------------------
Bars == 1..Len(df)
Annotated == pc \in {"loop", "return"}
AtBar == pc = "loop" /\ i <= Len(df)
Returned == pc = "return"

\* sum of the w closes ending at bar j
RECURSIVE WindowSum(_, _)
WindowSum(j, w) == IF w = 0 THEN 0 ELSE df[j].Close + WindowSum(j - 1, w - 1)

BothDefined(j) == j >= SMA_SHORT /\ j >= SMA_LONG
\* the two means, brought to the common denominator SMA_SHORT * SMA_LONG
ShortMean(j) == WindowSum(j, SMA_SHORT) * SMA_LONG
LongMean(j) == WindowSum(j, SMA_LONG) * SMA_SHORT

BarOfDate(d) == CHOOSE b \in Bars : df[b].Date = d

\* an entry was open when a +2 bar before bar n was processed
Overwritten(n) ==
    \E a \in Bars, b \in Bars :
        /\ a < b /\ b < n
        /\ Position[a] = <<2>> /\ Position[b] = <<2>>
        /\ \A m \in (a + 1)..(b - 1) : Position[m] # <<-2>>

\* x and y differ by at most half a hundredth, and x is a whole number of
\* hundredths
IsRounded2(x, y) ==
    /\ 100 % x.d = 0
    /\ 200 * Abs(x.n * y.d - y.n * x.d) <= x.d * y.d

\* the aggregation of section 3, computed from a trade log with no rounding
RECURSIVE PnL(_, _)
PnL(log, n) == IF n = 0 THEN Zero ELSE RatAdd(PnL(log, n - 1), log[n].ReturnPct)
RECURSIVE PnLWhere(_, _, _)
PnLWhere(log, n, sgn) ==
    IF n = 0 THEN Zero
    ELSE IF log[n].ReturnPct.n * sgn > 0
         THEN RatAdd(PnLWhere(log, n - 1, sgn), log[n].ReturnPct)
         ELSE PnLWhere(log, n - 1, sgn)
CountWhere(log, sgn) == Cardinality({t \in 1..Len(log) : log[t].ReturnPct.n * sgn > 0})
MeanWhere(log, sgn) ==
    IF CountWhere(log, sgn) = 0 THEN Zero
    ELSE LET t == PnLWhere(log, Len(log), sgn) IN Rat(t.n, t.d * CountWhere(log, sgn))
ExactWinRate(log) == Rat(100 * CountWhere(log, 1), Len(log))

\* ----- properties --------------------------------------------------------

\* C1: a bar with positionChange -2 processed while an entry is open appends
\* exactly one trade at the end of the log, made of the open entry's date and
\* price and of the bar's date and close, with returnPercent =
\* (exit - entry) / entry * 100 and holdingDays = exitDate - entryDate, and
\* clears the open entry; a -2 bar with no open entry appends nothing.
SellClosesTheOpenEntry ==
    [][ /\ (AtBar /\ Position[i] = <<-2>> /\ entry_price # None) =>
            /\ Len(trades') = Len(trades) + 1
            /\ SubSeq(trades', 1, Len(trades)) = trades
            /\ LET t == trades'[Len(trades')]
               IN  /\ t.EntryDate = entry_date[1]
                   /\ t.EntryPrice = entry_price[1]
                   /\ t.ExitDate = df[i].Date
                   /\ t.ExitPrice = df[i].Close
                   /\ t.ReturnPct.n * entry_price[1]
                        = (df[i].Close - entry_price[1]) * 100 * t.ReturnPct.d
                   /\ t.HoldingDays = df[i].Date - entry_date[1]
            /\ entry_price' = None
            /\ entry_date' = None
        /\ (AtBar /\ Position[i] = <<-2>> /\ entry_price = None) =>
            trades' = trades
      ]_vars

\* a trade was just closed by a -2 bar, several days after its entry
SellClosesTheOpenEntryWitness ==
    /\ pc = "loop" /\ i > 1
    /\ Position[i - 1] = <<-2>>
    /\ trades # <<>>
    /\ trades[Len(trades)].ExitDate = df[i - 1].Date
    /\ trades[Len(trades)].HoldingDays > 1
    /\ trades[Len(trades)].ReturnPct.n # 0
    /\ entry_price = None

\* C2: an entry still open after the last bar is in no row of the returned
\* trade log and counts in no summary field: every row of the log was closed
\* by a -2 bar of the series, and the summary counts just those rows.
OpenEntryIsNotReported ==
    Returned =>
        /\ \A t \in 1..Len(trade_log) :
             \E b \in Bars :
                /\ Position[b] = <<-2>>
                /\ trade_log[t].ExitDate = df[b].Date
                /\ trade_log[t].ExitPrice = df[b].Close
        /\ entry_date # None =>
             \A t \in 1..Len(trade_log) :
                /\ trade_log[t].EntryDate # entry_date[1]
                /\ trade_log[t].ExitDate < entry_date[1]
        /\ Len(trade_log) <= Cardinality({b \in Bars : Position[b] = <<-2>>})
        /\ summary[1].TotalTrades = Len(trade_log)

\* the series ended with an open entry, after an earlier trade was closed
OpenEntryIsNotReportedWitness ==
    /\ Returned
    /\ entry_price # None
    /\ trade_log # <<>>

\* C3: a series with fewer than SMA_LONG bars has no long average, signal 0
\* at every bar, no positionChange of +2 or -2, an empty trade log and the
\* all-zero summary.
ShortSeriesDoesNothing ==
    (Annotated /\ Len(df) < SMA_LONG) =>
        /\ \A j \in Bars :
             /\ SMA_Long[j] = NaN
             /\ Signal[j] = 0
             /\ Position[j] \notin {<<2>>, <<-2>>}
        /\ trades = <<>>
        /\ Returned =>
             /\ trade_log = <<>>
             /\ summary = <<[TotalTrades |-> 0, WinRate |-> [n |-> 0, d |-> 1],
                             AvgWin |-> [n |-> 0, d |-> 1],
                             AvgLoss |-> [n |-> 0, d |-> 1],
                             TotalPnL |-> [n |-> 0, d |-> 1]]>>

\* a two-bar series with moving closes returned under a three-bar long window
ShortSeriesDoesNothingWitness ==
    /\ Returned
    /\ Len(df) = 2 /\ SMA_LONG = 3
    /\ df[1].Close # df[2].Close

\* C4: signal is +1 exactly when both averages are defined and the short one
\* is greater, -1 exactly when both are defined and the short one is smaller,
\* 0 when one is absent or they are equal; positionChange is absent on the
\* first bar and signal[i] - signal[i-1] after it, so it is +2 only on a
\* Short-to-Long flip and -2 only on a Long-to-Short flip.
SignalsFollowTheAverages ==
    Annotated =>
        /\ Len(Signal) = Len(df) /\ Len(Position) = Len(df)
        /\ \A j \in Bars :
             /\ Signal[j] = 1 <=> (BothDefined(j) /\ ShortMean(j) > LongMean(j))
             /\ Signal[j] = -1 <=> (BothDefined(j) /\ ShortMean(j) < LongMean(j))
             /\ Signal[j] = 0 <=> (~BothDefined(j) \/ ShortMean(j) = LongMean(j))
             /\ j = 1 => Position[j] = NaN
             /\ j > 1 =>
                  /\ Position[j] = <<Signal[j] - Signal[j - 1]>>
                  /\ Position[j] = <<2>> <=> (Signal[j - 1] = -1 /\ Signal[j] = 1)
                  /\ Position[j] = <<-2>> <=> (Signal[j - 1] = 1 /\ Signal[j] = -1)

\* a series with a Long, a Flat and a Short bar, and a flip in each direction
SignalsFollowTheAveragesWitness ==
    /\ Annotated
    /\ SMA_SHORT = 2
    /\ \E a \in Bars, b \in Bars, c \in Bars :
          /\ Signal[a] = 1 /\ Signal[b] = -1 /\ Signal[c] = 0 /\ BothDefined(c)
    /\ \E a \in Bars, b \in Bars : Position[a] = <<2>> /\ Position[b] = <<-2>>

\* C5: a +2 bar processed while an entry is already open is reported: the
\* program emits a warning in that step.
OverwriteIsWarned ==
    [][ (AtBar /\ Position[i] = <<2>> /\ entry_price # None) =>
            Len(printed') > Len(printed) ]_vars

\* C6: a failed download never ends the run: whenever the program stops, the
\* summary file has been written.
FetchFailureSkipsTheTicker ==
    pc \in {"done", "aborted"} => summary_file # None

\* C7 as stated: the summary equals the aggregation recomputed from the trade
\* log, with no rounding.
SummaryIsTheExactAggregate ==
    (Returned /\ trade_log # <<>>) =>
        /\ summary[1].TotalTrades = Len(trade_log)
        /\ summary[1].WinRate = ExactWinRate(trade_log)
        /\ summary[1].AvgWin = MeanWhere(trade_log, 1)
        /\ summary[1].AvgLoss = MeanWhere(trade_log, -1)
        /\ summary[1].TotalPnL = PnL(trade_log, Len(trade_log))

\* C7 amended: Total Trades is the number of trades; Win Rate, Avg Win,
\* Avg Loss and Total PnL are the recomputed values rounded to two decimals
\* (within 0.005 of them), 0 for an average over no trade; a log of one
\* winning trade reports Avg Loss 0 and Avg Win that trade's return rounded
\* to two decimals.
SummaryIsTheRoundedAggregate ==
    Returned =>
        /\ summary[1].TotalTrades = Len(trade_log)
        /\ trade_log # <<>> =>
             /\ IsRounded2(summary[1].WinRate, ExactWinRate(trade_log))
             /\ IsRounded2(summary[1].AvgWin, MeanWhere(trade_log, 1))
             /\ IsRounded2(summary[1].AvgLoss, MeanWhere(trade_log, -1))
             /\ IsRounded2(summary[1].TotalPnL, PnL(trade_log, Len(trade_log)))
        /\ CountWhere(trade_log, 1) = 0 => summary[1].AvgWin = Zero
        /\ CountWhere(trade_log, -1) = 0 => summary[1].AvgLoss = Zero
        /\ (Len(trade_log) = 1 /\ trade_log[1].ReturnPct.n > 0) =>
             /\ summary[1].AvgLoss = Zero
             /\ summary[1].WinRate = Rat(100, 1)
             /\ IsRounded2(summary[1].AvgWin, trade_log[1].ReturnPct)

\* a returned log with a losing trade whose return is not a whole number of
\* hundredths: Avg Loss and Total PnL are both rounded
SummaryIsTheRoundedAggregateWitness ==
    /\ Returned
    /\ CountWhere(trade_log, -1) > 0
    /\ summary[1].AvgLoss # MeanWhere(trade_log, -1)
    /\ summary[1].TotalPnL # PnL(trade_log, Len(trade_log))
    /\ summary[1].AvgWin = Zero

\* C8: a bar whose positionChange is neither +2 nor -2 leaves the open entry
\* and the trade log as they are; a series with no Short bar (Flat, then
\* Long) never opens an entry and returns an empty trade log.
OtherBarsChangeNothing ==
    /\ [][ (AtBar /\ Position[i] \notin {<<2>>, <<-2>>}) =>
              /\ entry_price' = entry_price
              /\ entry_date' = entry_date
              /\ trades' = trades ]_vars
    /\ []( (Annotated /\ \A j \in Bars : Signal[j] # -1) =>
              /\ entry_price = None
              /\ trades = <<>>
              /\ Returned => trade_log = <<>> )

\* with an entry open, a Long-to-Flat bar (-1) has just been processed, and
\* the entry is still open
OtherBarsChangeNothingWitness ==
    /\ pc = "loop" /\ i > 2
    /\ Position[i - 1] = <<-1>>
    /\ Signal[i - 1] = 0
    /\ entry_price # None

\* C9: as long as no +2 bar was processed while an entry was open, twice the
\* number of trades is at most the number of +2 and -2 bars processed; every
\* trade enters at a +2 bar and exits at a -2 bar strictly after it, no two
\* trades share an entry bar, and no two share an exit bar.
TradesPairTheFlips ==
    (Annotated /\ ~Overwritten(i)) =>
        /\ 2 * Len(trades) <=
             Cardinality({b \in 1..(i - 1) : Position[b] \in {<<2>>, <<-2>>}})
        /\ \A t \in 1..Len(trades) :
             /\ \E a \in 1..(i - 1), b \in 1..(i - 1) :
                  /\ a < b
                  /\ Position[a] = <<2>> /\ df[a].Date = trades[t].EntryDate
                  /\ Position[b] = <<-2>> /\ df[b].Date = trades[t].ExitDate
             /\ \A u \in 1..Len(trades) :
                  u # t => /\ trades[u].EntryDate # trades[t].EntryDate
                           /\ trades[u].ExitDate # trades[t].ExitDate

\* a -2 bar found no entry to close, a trade was closed later, and the
\* series ended with an entry open
TradesPairTheFlipsWitness ==
    /\ Returned
    /\ ~Overwritten(i)
    /\ Len(trades) >= 1
    /\ Cardinality({b \in Bars : Position[b] = <<-2>>}) > Len(trades)
    /\ entry_price # None

\* C10 as stated: at every bar with both averages defined the signal is +1
\* or -1.
SignalIsNeverNeutral ==
    Annotated =>
        \A j \in Bars :
            (SMA_Short[j] # NaN /\ SMA_Long[j] # NaN) => Signal[j] \in {1, -1}

\* C10 amended: at every bar with both averages defined the signal is +1 or
\* -1 when the averages differ and 0 when they are equal; after the first
\* such bar every positionChange is in -2..2, and it is -2, 0 or +2 when the
\* averages differ at the bar and at the one before it.
SignalIsNeutralOnlyOnEquality ==
    Annotated =>
        \A j \in Bars :
            (SMA_Short[j] # NaN /\ SMA_Long[j] # NaN) =>
                /\ Signal[j] \in {1, -1} <=> SMA_Short[j] # SMA_Long[j]
                /\ Signal[j] = 0 <=> SMA_Short[j] = SMA_Long[j]
                /\ (j > 1 /\ SMA_Short[j - 1] # NaN /\ SMA_Long[j - 1] # NaN) =>
                     /\ Position[j] \in {<<-2>>, <<-1>>, <<0>>, <<1>>, <<2>>}
                     /\ (SMA_Short[j] # SMA_Long[j]
                           /\ SMA_Short[j - 1] # SMA_Long[j - 1]) =>
                          Position[j] \in {<<-2>>, <<0>>, <<2>>}

\* equal averages over closes that are not all equal, between a Long bar and
\* a Short bar
SignalIsNeutralOnlyOnEqualityWitness ==
    /\ Annotated
    /\ SMA_SHORT = 2 /\ SMA_LONG = 3
    /\ \E j \in Bars :
          /\ j > 3 /\ j < Len(df)
          /\ Signal[j] = 0
          /\ df[j].Close # df[j - 1].Close
          /\ Signal[j - 1] = 1 /\ Signal[j + 1] = -1

====
